---------------------------- MODULE Spec2Model ----------------------------
(***************************************************************************)
(* A model of EC2InstanceScheduler.py: the crontab-like field parser       *)
(* (_range, _parse_field), the schedule parser (_parse_schedule), the      *)
(* matcher (_scheduled) and the fleet scan (lambda_handler).               *)
(*                                                                         *)
(* Python strings are sequences of one-character strings.  A call that can *)
(* raise returns a record: Ok(v) carries the value, Raise(e) the name of   *)
(* the exception that left the call.                                       *)
(***************************************************************************)
EXTENDS Integers, Sequences, FiniteSets, TLC

VARIABLES
    field,      \* SpecField: the field string handed to _parse_field
    max,        \* SpecField: the bound string handed to _parse_field
    shape,      \* SpecField: how the field string was written (its range-elements)
    parsed,     \* SpecField: what _parse_field returned or raised
    s,          \* SpecSchedule: the schedule string handed to _scheduled
    t,          \* SpecSchedule: the timestamp handed to _scheduled
    result,     \* SpecSchedule: what _scheduled returned or raised
    fleet,      \* SpecHandler: the tagged instances, in listing order
    clock,      \* SpecHandler: the wall clock (an index into Times)
    now,        \* SpecHandler: lambda_handler's local `now`
    pc,         \* position of the call under way
    region,     \* SpecHandler: index of the region being scanned
    idx,        \* SpecHandler: position in the current filtered listing
    calls,      \* SpecHandler: per instance, the start() and stop() calls made
    evaluated   \* SpecHandler: the (instance, tag) pairs _scheduled was called for

vars == <<field, max, shape, parsed, s, t, result,
          fleet, clock, now, pc, region, idx, calls, evaluated>>

(***************************************************************************)
(* Bounds of the model.                                                    *)
(***************************************************************************)
MaxNum   == 7   \* numbers written in generated range-elements: 0..MaxNum
MaxStep  == 3   \* steps written in generated range-elements: 0..MaxStep
MaxElems == 2   \* comma-separated range-elements in a generated list
MaxInst  == 2   \* tagged instances in the fleet
NumYears == 1   \* calendar years the timestamps are drawn from

(***************************************************************************)
(* Results of calls that may raise.                                        *)
(***************************************************************************)
Ok(v)    == [ok |-> TRUE,  val |-> v,    err |-> ""]
Raise(e) == [ok |-> FALSE, val |-> <<>>, err |-> e]

(***************************************************************************)
(* Python string primitives over character sequences.                      *)
(***************************************************************************)
Digits == <<"0", "1", "2", "3", "4", "5", "6", "7", "8", "9">>
UPPER  == <<"A", "B", "C", "D", "E", "F", "G", "H", "I", "J", "K", "L", "M",
            "N", "O", "P", "Q", "R", "S", "T", "U", "V", "W", "X", "Y", "Z">>
LOWER  == <<"a", "b", "c", "d", "e", "f", "g", "h", "i", "j", "k", "l", "m",
            "n", "o", "p", "q", "r", "s", "t", "u", "v", "w", "x", "y", "z">>

IndexOf(c, seq) == IF \E i \in DOMAIN seq : seq[i] = c
                   THEN CHOOSE i \in DOMAIN seq : seq[i] = c
                   ELSE 0

\* A parser that forgets the case canonicalization.
lower_skipped(str) == str

\* str.lower(): every upper-case letter becomes its lower-case letter.
lower(str) == IF str = <<>> THEN <<>> ELSE
              [i \in DOMAIN str |->
                 IF IndexOf(str[i], UPPER) > 0
                 THEN LOWER[IndexOf(str[i], UPPER)]
                 ELSE str[i]]

\* str.replace(old, new) for a one-character old.
RECURSIVE replace(_, _, _)
replace(str, old, new) ==
    IF str = <<>> THEN <<>>
    ELSE (IF Head(str) = old THEN new ELSE <<Head(str)>>)
         \o replace(Tail(str), old, new)

\* str.split(sep) with an explicit one-character separator: consecutive
\* separators delimit empty strings, and "" splits into [""].
RECURSIVE split(_, _)
split(str, sep) ==
    IF \A i \in DOMAIN str : str[i] # sep THEN <<str>>
    ELSE LET k == CHOOSE i \in DOMAIN str :
                     str[i] = sep /\ \A j \in 1..(i - 1) : str[j] # sep
         IN  <<SubSeq(str, 1, k - 1)>> \o split(SubSeq(str, k + 1, Len(str)), sep)

\* T = maketrans('-/', '  ') and string.translate(str, T).
T(c) == IF c \in {"-", "/"} THEN " " ELSE c
translate(str) == IF str = <<>> THEN <<>> ELSE [i \in DOMAIN str |-> T(str[i])]

\* int(str): an optional sign, then one or more decimal digits; anything
\* else is a ValueError.  (No token reaching int() holds "-" or blanks:
\* translate and split remove them.)
RECURSIVE DigitsValue(_)
DigitsValue(str) ==
    IF str = <<>> THEN 0
    ELSE 10 * DigitsValue(SubSeq(str, 1, Len(str) - 1))
         + (IndexOf(str[Len(str)], Digits) - 1)

Unsigned(str) == IF str # <<>> /\ Head(str) = "+" THEN Tail(str) ELSE str

IsInt(str) == /\ Unsigned(str) # <<>>
              /\ \A i \in DOMAIN Unsigned(str) : IndexOf(Unsigned(str)[i], Digits) > 0

\* A lenient conversion in the manner of atoi(): a token that is no number
\* counts as 0.
int_lenient(str) == IF IsInt(str) THEN Ok(DigitsValue(Unsigned(str))) ELSE Ok(0)

int(str) == IF IsInt(str) THEN Ok(DigitsValue(Unsigned(str))) ELSE Raise("ValueError")

\* range(a, b, c) of Python 2 for c > 0: the list a, a + c, ... below b.
range(a, b, c) ==
    IF b <= a THEN <<>>
    ELSE [i \in 1..(((b - a - 1) \div c) + 1) |-> a + (i - 1) * c]

(***************************************************************************)
(* _range(start, stop=None, step=1), called with the split tokens as its   *)
(* positional arguments.                                                   *)
(***************************************************************************)
RangeOf(start, stop, step) ==
    IF ~start.ok \/ ~stop.ok \/ ~step.ok THEN Raise("ValueError")
    ELSE IF step.val = 0 THEN Raise("ValueError")
    ELSE Ok(range(start.val, stop.val + 1, step.val))

\* A _range that leaves the stopping point out, as the built-in range() does.
RangeOf_half_open(start, stop, step) ==
    IF ~start.ok \/ ~stop.ok \/ ~step.ok THEN Raise("ValueError")
    ELSE IF step.val = 0 THEN Raise("ValueError")
    ELSE Ok(range(start.val, stop.val, step.val))

_range_half_open(args) ==
    IF Len(args) > 3 THEN Raise("TypeError")
    ELSE RangeOf_half_open(int(args[1]),
                           IF Len(args) >= 2 THEN int(args[2]) ELSE int(args[1]),
                           IF Len(args) >= 3 THEN int(args[3]) ELSE int(<<"1">>))

_range(args) ==
    IF Len(args) > 3 THEN Raise("TypeError")
    ELSE RangeOf(int(args[1]),
                 IF Len(args) >= 2 THEN int(args[2]) ELSE int(args[1]),
                 IF Len(args) >= 3 THEN int(args[3]) ELSE int(<<"1">>))

(***************************************************************************)
(* _parse_field(field, max).                                               *)
(***************************************************************************)
RECURSIVE Flatten(_)
Flatten(l) == IF l = <<>> THEN <<>> ELSE Head(l).val \o Flatten(Tail(l))

\* The first exception raised while the list was built, else the result.
FirstRaise(l, value) ==
    IF \E i \in DOMAIN l : ~l[i].ok
    THEN Raise(l[CHOOSE i \in DOMAIN l :
                    ~l[i].ok /\ \A j \in 1..(i - 1) : l[j].ok].err)
    ELSE Ok(value)

Ranges(f) == [i \in DOMAIN f |-> _range(split(translate(f[i]), " "))]

FlattenAll(l) == FirstRaise(l, IF \A i \in DOMAIN l : l[i].ok THEN Flatten(l) ELSE <<>>)

_parse_field(fld, mx) == FlattenAll(Ranges(split(replace(fld, "*", mx), ",")))

(***************************************************************************)
(* The five bounds _parse_schedule passes to _parse_field, with the        *)
(* numbers each bound string stands for.                                   *)
(***************************************************************************)
FieldBounds ==
    [minute  |-> [max |-> <<"0", "-", "5", "9">>, lo |-> 0, hi |-> 59],
     hour    |-> [max |-> <<"0", "-", "2", "3">>, lo |-> 0, hi |-> 23],
     day     |-> [max |-> <<"1", "-", "3", "1">>, lo |-> 1, hi |-> 31],
     month   |-> [max |-> <<"1", "-", "1", "2">>, lo |-> 1, hi |-> 12],
     weekday |-> [max |-> <<"0", "-", "6">>,      lo |-> 0, hi |-> 6]]

FieldNames == {"minute", "hour", "day", "month", "weekday"}

BoundOf(mx) == FieldBounds[CHOOSE n \in FieldNames : FieldBounds[n].max = mx]

(***************************************************************************)
(* The field strings the field parser is tried on.  A field is written     *)
(* from a shape: a list of range-elements, each a number, "a-b", "a-b/c",  *)
(* "a/c", "*", "*/c", or a raw string that is no range-element.            *)
(***************************************************************************)
RECURSIVE Str(_)
Str(n) == IF n < 10 THEN <<Digits[n + 1]>>
          ELSE Str(n \div 10) \o <<Digits[(n % 10) + 1]>>

El(kind, a, b, c) == [kind |-> kind, a |-> a, b |-> b, c |-> c, raw |-> <<>>]
RawEl(str)        == [kind |-> "raw", a |-> 0, b |-> 0, c |-> 0, raw |-> str]

WriteEl(e) ==
    CASE e.kind = "num"       -> Str(e.a)
      [] e.kind = "range"     -> Str(e.a) \o <<"-">> \o Str(e.b)
      [] e.kind = "rangestep" -> Str(e.a) \o <<"-">> \o Str(e.b) \o <<"/">> \o Str(e.c)
      [] e.kind = "startstep" -> Str(e.a) \o <<"/">> \o Str(e.c)
      [] e.kind = "star"      -> <<"*">>
      [] e.kind = "starstep"  -> <<"*", "/">> \o Str(e.c)
      [] e.kind = "raw"       -> e.raw

RECURSIVE WriteField(_)
WriteField(sh) ==
    IF Len(sh) = 1 THEN WriteEl(sh[1])
    ELSE WriteEl(sh[1]) \o <<",">> \o WriteField(Tail(sh))

Nums  == 0..MaxNum
Steps == 0..MaxStep

SingleEls ==
    {El("num", a, 0, 1) : a \in Nums \cup {15, 59}}
    \cup {El("range", a, b, 1) : a \in Nums, b \in Nums}
    \cup {El("rangestep", a, b, c) : a \in Nums, b \in Nums, c \in Steps}
    \cup {El("rangestep", 0, 59, c) : c \in {15, 59}}
    \cup {El("startstep", a, 0, c) : a \in Nums, c \in Steps \cup {15}}
    \cup {El("star", 0, 0, 1)}
    \cup {El("starstep", 0, 0, c) : c \in Steps \cup {15}}
    \cup {RawEl(<<>>), RawEl(<<"a", "b", "c">>), RawEl(<<"1", "-", "-", "5">>),
          RawEl(<<"5", "-">>), RawEl(<<"1", "-", "2", "/", "3", "/", "4">>),
          RawEl(<<"j", "a", "n", "-", "3">>), RawEl(<<"+", "5">>),
          RawEl(<<"1", " ", "5">>)}

ListEls == {El("num", 1, 0, 1), El("num", 3, 0, 1), El("range", 5, 7, 1),
            El("rangestep", 0, 6, 2), El("star", 0, 0, 1),
            RawEl(<<"a", "b", "c">>)}

RECURSIVE Lists(_)
Lists(n) == IF n = 0 THEN {<<>>}
            ELSE {<<e>> \o l : e \in ListEls, l \in Lists(n - 1)}

Shapes == {<<e>> : e \in SingleEls}
          \cup UNION {Lists(n) : n \in 2..MaxElems}
          \cup {<<El("num", 1, 0, 1), El("num", 3, 0, 1), El("range", 5, 7, 1)>>}

(***************************************************************************)
(* Values of the variables a specification does not use.                   *)
(***************************************************************************)
None     == [ok |-> FALSE, val |-> <<>>, err |-> "None"]
NoTime   == [year |-> 0, month |-> 0, day |-> 0, hour |-> 0, minute |-> 0]

FieldIdle    == field = <<>> /\ max = <<>> /\ shape = <<>> /\ parsed = None
ScheduleIdle == s = <<>> /\ t = NoTime /\ result = None
HandlerIdle  == /\ fleet = <<>> /\ clock = 0 /\ now = NoTime /\ region = 0
                /\ idx = 0 /\ calls = <<>> /\ evaluated = {}

(***************************************************************************)
(* SpecField: one call of _parse_field on a drawn field and bound.         *)
(***************************************************************************)
InitField ==
    /\ shape \in Shapes
    /\ field = WriteField(shape)
    /\ max \in {FieldBounds[n].max : n \in FieldNames}
    /\ parsed = None
    /\ pc = "field_call"
    /\ ScheduleIdle /\ HandlerIdle

ParseField ==
    /\ pc = "field_call"
    /\ parsed' = _parse_field(field, max)
    /\ pc' = "field_done"
    /\ UNCHANGED <<field, max, shape, s, t, result,
                   fleet, clock, now, region, idx, calls, evaluated>>

NextField == ParseField

SpecField == InitField /\ [][NextField]_vars

\* The set of numbers a returned list holds.
SetOf(list) == {list[i] : i \in DOMAIN list}

(***************************************************************************)
(* What the specification says a range-element denotes under a bound.      *)
(***************************************************************************)
Stepped(a, b, c) == {n \in a..b : (n - a) % c = 0}

Denote(e, bound) ==
    CASE e.kind = "num"       -> {e.a}
      [] e.kind = "range"     -> e.a..e.b
      [] e.kind = "rangestep" -> Stepped(e.a, e.b, e.c)
      [] e.kind = "startstep" -> Stepped(e.a, bound.hi, e.c)
      [] e.kind = "star"      -> bound.lo..bound.hi
      [] e.kind = "starstep"  -> Stepped(bound.lo, bound.hi, e.c)

DenoteField(sh, bound) == UNION {Denote(sh[i], bound) : i \in DOMAIN sh}

\* The field is written in the grammar start[-stop][/step] with a step of
\* at least 1 (a step of 0 is a ValueError of range()).
WellFormed(sh) == \A i \in DOMAIN sh : sh[i].kind # "raw" /\ sh[i].c >= 1

\* No range-element of the field has stop < start.
Ascending(sh) ==
    \A i \in DOMAIN sh : sh[i].kind \in {"range", "rangestep"} => sh[i].a <= sh[i].b

\* The numbers written in the field, steps included.
Literals(sh) ==
    UNION {CASE sh[i].kind = "num"       -> {sh[i].a}
             [] sh[i].kind = "range"     -> {sh[i].a, sh[i].b}
             [] sh[i].kind = "rangestep" -> {sh[i].a, sh[i].b, sh[i].c}
             [] sh[i].kind = "startstep" -> {sh[i].a, sh[i].c}
             [] sh[i].kind = "starstep"  -> {sh[i].c}
             [] OTHER                    -> {} : i \in DOMAIN sh}

SameSet(r1, r2) == /\ r1.ok = r2.ok
                   /\ r1.ok => SetOf(r1.val) = SetOf(r2.val)

(***************************************************************************)
(* C3: for every bound and every range-element "start/step", _parse_field  *)
(* returns the same set as for "start-max/step": start through the bound's *)
(* maximum, stepped by step.                                               *)
(***************************************************************************)
C3_StartStepRunsToMax ==
    (pc = "field_done" /\ Len(shape) = 1 /\ shape[1].kind = "startstep"
       /\ shape[1].c >= 1)
    => /\ SameSet(parsed,
                  _parse_field(WriteEl(El("rangestep", shape[1].a,
                                          BoundOf(max).hi, shape[1].c)), max))
       /\ parsed.ok
       /\ SetOf(parsed.val) = Denote(shape[1], BoundOf(max))

(***************************************************************************)
(* C4: for every well-formed field with no stop < start and no written     *)
(* number outside the bound, _parse_field returns a non-empty list whose   *)
(* elements all lie within the bound.                                      *)
(***************************************************************************)
C4_NonEmptyWithinBound ==
    (pc = "field_done" /\ WellFormed(shape) /\ Ascending(shape)
       /\ Literals(shape) \subseteq BoundOf(max).lo..BoundOf(max).hi)
    => /\ parsed.ok
       /\ parsed.val # <<>>
       /\ SetOf(parsed.val) \subseteq BoundOf(max).lo..BoundOf(max).hi

(***************************************************************************)
(* C5: a field holding a range-element "start-stop" with stop < start is   *)
(* rejected: _parse_field raises instead of returning a list.              *)
(***************************************************************************)
C5_DescendingRangeRejected ==
    (pc = "field_done" /\ ~Ascending(shape)) => ~parsed.ok

(***************************************************************************)
(* C7: _parse_field returns exactly the union of what its comma-separated  *)
(* range-elements denote: a number itself, "a-b" every integer of [a, b],  *)
(* "a-b/c" a, a+c, ... up to b, "*" the whole bound; "1-5" gives 1..5,     *)
(* "*/15" under 0-59 gives {0,15,30,45}, "1,3,5-7" gives {1,3,5,6,7}.      *)
(***************************************************************************)
C7_Covered(sh) ==
    /\ WellFormed(sh)
    /\ \A i \in DOMAIN sh : sh[i].kind # "startstep"

C7_FieldIsUnionOfElements ==
    pc = "field_done" =>
      /\ C7_Covered(shape) =>
            /\ parsed.ok
            /\ SetOf(parsed.val) = DenoteField(shape, BoundOf(max))
      /\ field = <<"1", "-", "5">> =>
            parsed.ok /\ SetOf(parsed.val) = {1, 2, 3, 4, 5}
      /\ (field = <<"*", "/", "1", "5">> /\ max = FieldBounds.minute.max) =>
            parsed.ok /\ SetOf(parsed.val) = {0, 15, 30, 45}
      /\ (field = <<"1", ",", "3", ",", "5", "-", "7">>
            /\ max = FieldBounds.minute.max) =>
            parsed.ok /\ SetOf(parsed.val) = {1, 3, 5, 6, 7}

C7_Witness ==
    /\ pc = "field_done"
    /\ field = <<"1", ",", "3", ",", "5", "-", "7">>
    /\ max = FieldBounds.minute.max
    /\ parsed.ok
    /\ SetOf(parsed.val) = {1, 3, 5, 6, 7}

(***************************************************************************)
(* months, weekdays: the name tables, as (key, value) pairs, and the       *)
(* lookup `table[key] if key in table else key`.                           *)
(***************************************************************************)
months ==
    {<<<<"j", "a", "n">>, <<"1">>>>,
     <<<<"f", "e", "b">>, <<"2">>>>,
     <<<<"m", "a", "r">>, <<"3">>>>,
     <<<<"a", "p", "r">>, <<"4">>>>,
     <<<<"m", "a", "y">>, <<"5">>>>,
     <<<<"j", "u", "n">>, <<"6">>>>,
     <<<<"j", "u", "l">>, <<"7">>>>,
     <<<<"a", "u", "g">>, <<"8">>>>,
     <<<<"s", "e", "p">>, <<"9">>>>,
     <<<<"o", "c", "t">>, <<"1", "0">>>>,
     <<<<"n", "o", "v">>, <<"1", "1">>>>,
     <<<<"d", "e", "c">>, <<"1", "2">>>>}

weekdays ==
    {<<<<"s", "u", "n">>, <<"0">>>>,
     <<<<"m", "o", "n">>, <<"1">>>>,
     <<<<"t", "u", "e">>, <<"2">>>>,
     <<<<"w", "e", "d">>, <<"3">>>>,
     <<<<"t", "h", "u">>, <<"4">>>>,
     <<<<"f", "r", "i">>, <<"5">>>>,
     <<<<"s", "a", "t">>, <<"6">>>>}

Lookup(table, key) ==
    IF \E kv \in table : kv[1] = key
    THEN (CHOOSE kv \in table : kv[1] = key)[2]
    ELSE key

(***************************************************************************)
(* _parse_schedule(schedule).                                              *)
(***************************************************************************)
Compiled(parts) ==
    FirstRaise(parts, [minute  |-> parts[1].val,
                       hour    |-> parts[2].val,
                       day     |-> parts[3].val,
                       month   |-> parts[4].val,
                       weekday |-> parts[5].val])

ParseFields(fields) ==
    IF Len(fields) # 5 THEN Raise("ValueError")
    ELSE Compiled(<<_parse_field(fields[1], FieldBounds.minute.max),
                    _parse_field(fields[2], FieldBounds.hour.max),
                    _parse_field(fields[3], FieldBounds.day.max),
                    _parse_field(Lookup(months, fields[4]), FieldBounds.month.max),
                    _parse_field(Lookup(weekdays, fields[5]), FieldBounds.weekday.max)>>)

RECURSIVE _parse_schedule(_)
_parse_schedule(schedule) ==
    LET sch == lower(schedule)
    IN  IF sch \in {<<"@", "y", "e", "a", "r", "l", "y">>, <<"@", "a", "n", "n", "u", "a", "l", "l", "y">>}
            THEN _parse_schedule(<<"0", " ", "0", " ", "1", " ", "1", " ", "*">>)
        ELSE IF sch \in {<<"@", "m", "o", "n", "t", "h", "l", "y">>}
            THEN _parse_schedule(<<"0", " ", "0", " ", "1", " ", "*", " ", "*">>)
        ELSE IF sch \in {<<"@", "w", "e", "e", "k", "l", "y">>}
            THEN _parse_schedule(<<"0", " ", "0", " ", "*", " ", "*", " ", "0">>)
        ELSE IF sch \in {<<"@", "d", "a", "i", "l", "y">>, <<"@", "m", "i", "d", "n", "i", "g", "h", "t">>}
            THEN _parse_schedule(<<"0", " ", "0", " ", "*", " ", "*", " ", "*">>)
        ELSE IF sch \in {<<"@", "h", "o", "u", "r", "l", "y">>}
            THEN _parse_schedule(<<"0", " ", "*", " ", "*", " ", "*", " ", "*">>)
        ELSE IF sch \in {<<"@", "e", "v", "e", "r", "y", "_", "m", "i", "n", "u", "t", "e">>}
            THEN _parse_schedule(<<"*", "/", "1", " ", "*", " ", "*", " ", "*", " ", "*">>)
        ELSE
        ParseFields(split(sch, " "))

(***************************************************************************)
(* datetime: the fields of a timestamp, date.toordinal(), weekday() and    *)
(* isoweekday().                                                           *)
(***************************************************************************)
IsLeap(y) == y % 4 = 0 /\ (y % 100 # 0 \/ y % 400 = 0)

DaysInMonth(y, m) ==
    IF m = 2 THEN (IF IsLeap(y) THEN 29 ELSE 28)
    ELSE IF m \in {4, 6, 9, 11} THEN 30 ELSE 31

RECURSIVE DaysBeforeMonth(_, _)
DaysBeforeMonth(y, m) ==
    IF m = 1 THEN 0 ELSE DaysBeforeMonth(y, m - 1) + DaysInMonth(y, m - 1)

DaysBeforeYear(y) ==
    (y - 1) * 365 + ((y - 1) \div 4) - ((y - 1) \div 100) + ((y - 1) \div 400)

toordinal(d) == DaysBeforeYear(d.year) + DaysBeforeMonth(d.year, d.month) + d.day

weekday(d)    == (toordinal(d) + 6) % 7
isoweekday(d) == weekday(d) + 1

In(v, list) == \E i \in DOMAIN list : list[i] = v

(***************************************************************************)
(* _scheduled(t, s).                                                       *)
(***************************************************************************)
\* A matcher with crontab's relaxation: when the day of the month and the
\* weekday are both restricted, either may match.
Restricted(list, bound) == SetOf(list) # bound.lo..bound.hi

Matches_day_or_weekday(time, schedule) ==
    IF ~schedule.ok THEN Raise(schedule.err)
    ELSE Ok(/\ In(time.minute, schedule.val.minute)
            /\ In(time.hour, schedule.val.hour)
            /\ In(time.month, schedule.val.month)
            /\ IF /\ Restricted(schedule.val.day, FieldBounds.day)
                  /\ Restricted(schedule.val.weekday, FieldBounds.weekday)
               THEN \/ In(time.day, schedule.val.day)
                    \/ IF In(7, schedule.val.weekday)
                       THEN In(isoweekday(time), schedule.val.weekday)
                       ELSE In(weekday(time), schedule.val.weekday)
               ELSE /\ In(time.day, schedule.val.day)
                    /\ IF In(7, schedule.val.weekday)
                       THEN In(isoweekday(time), schedule.val.weekday)
                       ELSE In(weekday(time), schedule.val.weekday))

Matches(time, schedule) ==
    IF ~schedule.ok THEN Raise(schedule.err)
    ELSE Ok(/\ In(time.minute, schedule.val.minute)
            /\ In(time.hour, schedule.val.hour)
            /\ In(time.day, schedule.val.day)
            /\ In(time.month, schedule.val.month)
            /\ IF In(7, schedule.val.weekday)
               THEN In(isoweekday(time), schedule.val.weekday)
               ELSE In(weekday(time), schedule.val.weekday))

_scheduled(time, sched) == Matches(time, _parse_schedule(sched))

(***************************************************************************)
(* The schedule strings and timestamps the matcher is tried on.            *)
(***************************************************************************)
FiveFieldSchedules ==
    {<<"*", " ", "*", " ", "*", " ", "*", " ", "*">>,
     <<"0", " ", "*", " ", "*", " ", "*", " ", "*">>,
     <<"3", "0", " ", "*", " ", "*", " ", "*", " ", "*">>,
     <<"*", "/", "1", "5", " ", "*", " ", "*", " ", "*", " ", "*">>,
     <<"*", " ", "2", " ", "*", " ", "*", " ", "*">>,
     <<"*", " ", "*", " ", "1", "5", " ", "*", " ", "*">>,
     <<"*", " ", "*", " ", "1", " ", "*", " ", "*">>,
     <<"*", " ", "*", " ", "*", " ", "3", " ", "*">>,
     <<"*", " ", "*", " ", "*", " ", "j", "a", "n", " ", "*">>,
     <<"*", " ", "*", " ", "*", " ", "S", "E", "P", " ", "*">>,
     <<"*", " ", "*", " ", "*", " ", "*", " ", "0">>,
     <<"*", " ", "*", " ", "*", " ", "*", " ", "7">>,
     <<"*", " ", "*", " ", "*", " ", "*", " ", "1">>,
     <<"*", " ", "*", " ", "*", " ", "*", " ", "6">>,
     <<"*", " ", "*", " ", "*", " ", "*", " ", "s", "u", "n">>,
     <<"*", " ", "*", " ", "*", " ", "*", " ", "M", "o", "n">>,
     <<"*", " ", "*", " ", "*", " ", "*", " ", "0", ",", "7">>,
     <<"*", " ", "*", " ", "*", " ", "*", " ", "1", "-", "7">>,
     <<"*", " ", "*", " ", "*", " ", "*", " ", "5", "-", "1">>,
     <<"*", " ", "*", " ", "1", "/", "2", " ", "*", " ", "*">>,
     <<"3", "0", " ", "2", " ", "1", "5", " ", "*", " ", "*">>,
     <<"3", "0", " ", "2", " ", "1", "5", " ", "*", " ", "1">>,
     <<"3", "0", " ", "2", " ", "1", "5", " ", "*", " ", "4">>,
     <<"0", " ", "0", " ", "1", " ", "j", "a", "n", " ", "*">>,
     <<"0", " ", "0", " ", "1", " ", "1", " ", "*">>,
     <<"0", " ", "0", " ", "1", " ", "*", " ", "*">>,
     <<"0", " ", "0", " ", "*", " ", "*", " ", "0">>,
     <<"0", " ", "0", " ", "*", " ", "*", " ", "7">>,
     <<"0", " ", "0", " ", "*", " ", "*", " ", "*">>,
     <<"*", "/", "1", " ", "*", " ", "*", " ", "*", " ", "*">>,
     <<"0", " ", "0", " ", "1", " ", "*", " ", "7">>,
     <<"0", " ", "0", " ", "1", " ", "*", " ", "0">>,
     <<"0", " ", "0", " ", "1", "-", "7", " ", "*", " ", "1">>,
     <<"0", ",", "3", "0", " ", "0", "-", "2", "/", "2", " ", "*", " ", "1", ",", "3", " ", "*">>}

AliasSchedules ==
    {<<"@", "y", "e", "a", "r", "l", "y">>,
     <<"@", "a", "n", "n", "u", "a", "l", "l", "y">>,
     <<"@", "m", "o", "n", "t", "h", "l", "y">>,
     <<"@", "w", "e", "e", "k", "l", "y">>,
     <<"@", "d", "a", "i", "l", "y">>,
     <<"@", "m", "i", "d", "n", "i", "g", "h", "t">>,
     <<"@", "h", "o", "u", "r", "l", "y">>,
     <<"@", "e", "v", "e", "r", "y", "_", "m", "i", "n", "u", "t", "e">>,
     <<"@", "Y", "E", "A", "R", "L", "Y">>,
     <<"@", "A", "n", "n", "u", "a", "l", "l", "y">>,
     <<"@", "M", "O", "N", "T", "H", "L", "Y">>,
     <<"@", "W", "e", "e", "k", "l", "y">>,
     <<"@", "D", "A", "I", "L", "Y">>,
     <<"@", "M", "i", "d", "N", "i", "g", "h", "t">>,
     <<"@", "H", "o", "u", "r", "l", "y">>,
     <<"@", "E", "v", "e", "r", "y", "_", "M", "i", "n", "u", "t", "e">>}

MalformedSchedules ==
    {<<"0", " ", "0", " ", "1", " ", "1">>,
     <<"0", " ", "0", " ", "1", " ", "1", " ", "*", " ", "*">>,
     <<>>,
     <<"*">>,
     <<"0", " ", "0", " ", " ", "1", " ", "1", " ", "*">>,
     <<"@", "r", "e", "b", "o", "o", "t">>,
     <<"@", "d", "a", "i", "l", "y", "y">>,
     <<"a", "b", "c", " ", "*", " ", "*", " ", "*", " ", "*">>,
     <<"*", " ", "x", " ", "*", " ", "*", " ", "*">>,
     <<"*", " ", "*", " ", "*", " ", "f", "o", "o", " ", "*">>,
     <<"*", " ", "*", " ", "*", " ", "j", "a", "n", ",", "f", "e", "b", " ", "*">>,
     <<"*", " ", "*", " ", "*", " ", "*", " ", "m", "o", "n", "-", "f", "r", "i">>,
     <<"*", " ", "*", " ", "*", " ", "*", " ", "s", "u", "n", "d", "a", "y">>,
     <<"0", " ", "0", " ", "1", " ", "1", " ", "*", " ">>,
     <<"*", " ", "*", " ", "*", " ", "*", " ", "1", "-", "2", "/", "3", "/", "x">>,
     <<"*", "/", "0", " ", "*", " ", "*", " ", "*", " ", "*">>,
     <<"*", " ", "*", " ", "1", "-", "-", "5", " ", "*", " ", "*">>}

Schedules == FiveFieldSchedules \cup AliasSchedules \cup MalformedSchedules

Years      == 2024..(2023 + NumYears)
TestMonths == {1, 3, 9}
TestHours  == {0, 2}
TestMins   == {0, 30}

Times ==
    {[year |-> y, month |-> m, day |-> d, hour |-> h, minute |-> mi] :
        y \in Years, m \in TestMonths, d \in 1..31, h \in TestHours, mi \in TestMins}

Timestamps == {d \in Times : d.day <= DaysInMonth(d.year, d.month)}

(***************************************************************************)
(* SpecSchedule: one call of _scheduled on a drawn timestamp and schedule. *)
(***************************************************************************)
InitSchedule ==
    /\ s \in Schedules
    /\ t \in Timestamps
    /\ result = None
    /\ pc = "sched_call"
    /\ FieldIdle /\ HandlerIdle

CallScheduled ==
    /\ pc = "sched_call"
    /\ result' = _scheduled(t, s)
    /\ pc' = "sched_done"
    /\ UNCHANGED <<field, max, shape, parsed, s, t,
                   fleet, clock, now, region, idx, calls, evaluated>>

NextSchedule == CallScheduled

SpecSchedule == InitSchedule /\ [][NextSchedule]_vars

(***************************************************************************)
(* The weekday of a date by Zeller's congruence, ISO numbered (Monday = 1  *)
(* ... Sunday = 7): the calendar the properties below speak of, without    *)
(* date.toordinal().                                                       *)
(***************************************************************************)
ZellerH(q, m, y) ==
    (q + ((13 * (m + 1)) \div 5) + (y % 100) + ((y % 100) \div 4)
       + ((y \div 100) \div 4) + 5 * (y \div 100)) % 7

IsoDay(d) ==
    ((ZellerH(d.day,
              IF d.month < 3 THEN d.month + 12 ELSE d.month,
              IF d.month < 3 THEN d.year - 1 ELSE d.year) + 5) % 7) + 1

SameResult(r1, r2) == r1.ok = r2.ok /\ (r1.ok => r1.val = r2.val)

(***************************************************************************)
(* C1: for a five-field schedule that parses, _scheduled(t, s) is true iff *)
(* t's minute, hour, day and month are each in the compiled set and t's    *)
(* weekday value is in the compiled weekday set, that value being the ISO  *)
(* weekday (Mon=1..Sun=7) when the set holds 7 and the Monday-indexed      *)
(* weekday (Mon=0..Sun=6) otherwise; the five conditions are ANDed.        *)
(***************************************************************************)
C1_WeekdayValue(time, c) ==
    IF 7 \in SetOf(c.weekday) THEN IsoDay(time) ELSE IsoDay(time) - 1

C1_Conjunction(time, c) ==
    /\ time.minute \in SetOf(c.minute)
    /\ time.hour \in SetOf(c.hour)
    /\ time.day \in SetOf(c.day)
    /\ time.month \in SetOf(c.month)
    /\ C1_WeekdayValue(time, c) \in SetOf(c.weekday)

C1_Agrees(compiled) ==
    compiled.ok => result.ok /\ result.val = C1_Conjunction(t, compiled.val)

C1_MatchIsConjunction ==
    (pc = "sched_done" /\ Len(split(s, " ")) = 5) => C1_Agrees(_parse_schedule(s))

\* 2024-03-15 02:30, a Friday that is the 15th, against "30 2 15 * 1":
\* the day of the month matches, the weekday does not, the result is false.
C1_Witness ==
    /\ pc = "sched_done"
    /\ s = <<"3", "0", " ", "2", " ", "1", "5", " ", "*", " ", "1">>
    /\ t = [year |-> 2024, month |-> 3, day |-> 15, hour |-> 2, minute |-> 30]
    /\ result.ok
    /\ result.val = FALSE

(***************************************************************************)
(* C2: on a Sunday timestamp whose minute, hour, day and month match, a    *)
(* schedule whose weekday field is "0" matches and a schedule whose        *)
(* weekday field is "7" matches too.                                       *)
(***************************************************************************)
C2_OthersMatch(time, parts) ==
    /\ \A i \in 1..4 : parts[i].ok
    /\ time.minute \in SetOf(parts[1].val)
    /\ time.hour \in SetOf(parts[2].val)
    /\ time.day \in SetOf(parts[3].val)
    /\ time.month \in SetOf(parts[4].val)

C2_Case(fields) ==
    /\ Len(fields) = 5
    /\ fields[5] \in {<<"0">>, <<"7">>}
    /\ IsoDay(t) = 7
    /\ C2_OthersMatch(t, <<_parse_field(fields[1], FieldBounds.minute.max),
                           _parse_field(fields[2], FieldBounds.hour.max),
                           _parse_field(fields[3], FieldBounds.day.max),
                           _parse_field(Lookup(months, fields[4]),
                                        FieldBounds.month.max)>>)

C2_SundayMatchesZeroAndSeven ==
    (pc = "sched_done" /\ C2_Case(split(s, " "))) => (result.ok /\ result.val)

(***************************************************************************)
(* C6: for every timestamp and every named alias, in any letter case,      *)
(* _scheduled(t, alias) equals _scheduled(t, canonical form).              *)
(***************************************************************************)
C6_Canonical(a) ==
    CASE a \in {<<"@", "y", "e", "a", "r", "l", "y">>,
                  <<"@", "Y", "E", "A", "R", "L", "Y">>,
                  <<"@", "a", "n", "n", "u", "a", "l", "l", "y">>,
                  <<"@", "A", "n", "n", "u", "a", "l", "l", "y">>}
           -> <<"0", " ", "0", " ", "1", " ", "1", " ", "*">>
      [] a \in {<<"@", "m", "o", "n", "t", "h", "l", "y">>,
                  <<"@", "M", "O", "N", "T", "H", "L", "Y">>}
           -> <<"0", " ", "0", " ", "1", " ", "*", " ", "*">>
      [] a \in {<<"@", "w", "e", "e", "k", "l", "y">>,
                  <<"@", "W", "e", "e", "k", "l", "y">>}
           -> <<"0", " ", "0", " ", "*", " ", "*", " ", "0">>
      [] a \in {<<"@", "d", "a", "i", "l", "y">>,
                  <<"@", "D", "A", "I", "L", "Y">>,
                  <<"@", "m", "i", "d", "n", "i", "g", "h", "t">>,
                  <<"@", "M", "i", "d", "N", "i", "g", "h", "t">>}
           -> <<"0", " ", "0", " ", "*", " ", "*", " ", "*">>
      [] a \in {<<"@", "h", "o", "u", "r", "l", "y">>,
                  <<"@", "H", "o", "u", "r", "l", "y">>}
           -> <<"0", " ", "*", " ", "*", " ", "*", " ", "*">>
      [] a \in {<<"@", "e", "v", "e", "r", "y", "_", "m", "i", "n", "u", "t", "e">>,
                  <<"@", "E", "v", "e", "r", "y", "_", "M", "i", "n", "u", "t", "e">>}
           -> <<"*", "/", "1", " ", "*", " ", "*", " ", "*", " ", "*">>

C6_AliasEqualsCanonical ==
    (pc = "sched_done" /\ s \in AliasSchedules)
    => /\ result.ok
       /\ SameResult(result, _scheduled(t, C6_Canonical(s)))

\* "@Weekly" at 2024-01-01 00:00 returns what "0 0 * * 0" returns there.
C6_Witness ==
    /\ pc = "sched_done"
    /\ s = <<"@", "W", "e", "e", "k", "l", "y">>
    /\ t = [year |-> 2024, month |-> 1, day |-> 1, hour |-> 0, minute |-> 0]
    /\ result.ok
    /\ result.val = TRUE

(***************************************************************************)
(* C8: a schedule that is no recognized alias and does not split into      *)
(* exactly five fields, or that has a field with a non-numeric token after *)
(* name substitution, makes _scheduled raise: it returns neither true nor  *)
(* false.                                                                  *)
(***************************************************************************)
C8_FieldChars == SetOf(Digits) \cup {",", "-", "/", "*", "+"}

C8_NonNumeric(fld) == \E i \in DOMAIN fld : fld[i] \notin C8_FieldChars

C8_Malformed(fields) ==
    \/ Len(fields) # 5
    \/ /\ Len(fields) = 5
       /\ \/ \E i \in 1..3 : C8_NonNumeric(fields[i])
          \/ C8_NonNumeric(Lookup(months, fields[4]))
          \/ C8_NonNumeric(Lookup(weekdays, fields[5]))

C8_MalformedRaises ==
    (pc = "sched_done" /\ s \notin AliasSchedules /\ C8_Malformed(split(lower(s), " ")))
    => ~result.ok

\* Four fields: "0 0 1 1" raises.
C8_Witness ==
    /\ pc = "sched_done"
    /\ s = <<"0", " ", "0", " ", "1", " ", "1">>
    /\ ~result.ok
    /\ result.err = "ValueError"

(***************************************************************************)
(* lambda_handler: the scan of every region for instances carrying the     *)
(* auto-start or the auto-stop tag.                                        *)
(***************************************************************************)
\* The tag keys, prefixed with the account ID of the caller.
auto_start_tag == "123456789012:auto-start"
auto_stop_tag  == "123456789012:auto-stop"

\* boto3.DEFAULT_SESSION.get_available_regions('ec2'), in listing order.
Regions == <<"us-east-1", "eu-west-1">>

\* The wall clock during one scan: three consecutive minutes.
ClockTimes ==
    <<[year |-> 2024, month |-> 3, day |-> 15, hour |-> 2, minute |-> 29],
      [year |-> 2024, month |-> 3, day |-> 15, hour |-> 2, minute |-> 30],
      [year |-> 2024, month |-> 3, day |-> 15, hour |-> 2, minute |-> 31]>>

Tag(k, v) == [Key |-> k, Value |-> v]

\* The tag lists instances are drawn with.
TagLists ==
    {<<Tag(auto_start_tag, <<"*", " ", "*", " ", "*", " ", "*", " ", "*">>)>>,
     <<Tag("Name", <<"w", "e", "b">>),
       Tag(auto_start_tag, <<"3", "0", " ", "2", " ", "1", "5", " ", "*", " ", "*">>),
       Tag(auto_stop_tag, <<"@", "e", "v", "e", "r", "y", "_", "m", "i", "n", "u", "t", "e">>)>>,
     <<Tag(auto_start_tag, <<"0", " ", "0", " ", "1", " ", "1">>)>>,
     <<Tag(auto_stop_tag, <<"3", "0", " ", "2", " ", "1", "5", " ", "*", " ", "5">>),
       Tag(auto_start_tag, <<"3", "1", " ", "2", " ", "*", " ", "m", "a", "r", " ", "*">>)>>,
     <<Tag(auto_stop_tag, <<"*", " ", "*", " ", "*", " ", "*", " ", "m", "o", "n", "-", "f", "r", "i">>)>>}

Instances == {[region |-> Regions[r], tags |-> tl] : r \in DOMAIN Regions, tl \in TagLists}

RECURSIVE Fleets(_)
Fleets(n) == IF n = 0 THEN {<<>>}
             ELSE Fleets(n - 1)
                  \cup {f \o <<i>> : f \in {g \in Fleets(n - 1) : Len(g) = n - 1},
                                      i \in Instances}

HasTag(i, key) == \E k \in DOMAIN fleet[i].tags : fleet[i].tags[k].Key = key

\* ec2.instances.filter(Filters=[tag-key = key]) in region r: the indices
\* of the matching instances, in listing order.
RECURSIVE Filter(_, _, _)
Filter(r, key, from) ==
    IF from > Len(fleet) THEN <<>>
    ELSE (IF fleet[from].region = Regions[r] /\ HasTag(from, key)
          THEN <<from>> ELSE <<>>) \o Filter(r, key, from + 1)

\* [ tag['Value'] for tag in instance.tags if tag['Key'] == key ] [0]
TagValue(i, key) ==
    fleet[i].tags[CHOOSE k \in DOMAIN fleet[i].tags :
                     /\ fleet[i].tags[k].Key = key
                     /\ \A j \in 1..(k - 1) : fleet[i].tags[j].Key # key].Value

\* A decision that reads the wall clock anew instead of using `now`.
Decision_live_clock(i, key) == _scheduled(ClockTimes[clock], TagValue(i, key))

\* _scheduled(now, s) for the instance's tag value.
Decision(i, key) == _scheduled(now, TagValue(i, key))

InitHandler ==
    /\ fleet \in Fleets(MaxInst)
    /\ clock \in DOMAIN ClockTimes
    /\ now = NoTime
    /\ pc = "idle"
    /\ region = 0
    /\ idx = 0
    /\ calls = [i \in DOMAIN fleet |-> [start |-> 0, stop |-> 0]]
    /\ evaluated = {}
    /\ FieldIdle /\ ScheduleIdle

\* now = datetime.utcnow(), and the first region's start loop begins.
Invoke ==
    /\ pc = "idle"
    /\ now' = ClockTimes[clock]
    /\ region' = 1
    /\ idx' = 1
    /\ pc' = "start_loop"
    /\ UNCHANGED <<field, max, shape, parsed, s, t, result,
                   fleet, clock, calls, evaluated>>

\* One pass of a loop body: the decision for the instance, and the call if
\* it is true; an exception leaves lambda_handler.
Body(i, what, decision) ==
    /\ evaluated' = evaluated \cup {<<i, what>>}
    /\ IF ~decision.ok
       THEN /\ pc' = "raised"
            /\ UNCHANGED <<calls, idx>>
       ELSE /\ calls' = IF decision.val
                        THEN [calls EXCEPT ![i][what] = @ + 1]
                        ELSE calls
            /\ idx' = idx + 1
            /\ UNCHANGED pc

StartStep ==
    /\ pc = "start_loop"
    /\ idx <= Len(Filter(region, auto_start_tag, 1))
    /\ Body(Filter(region, auto_start_tag, 1)[idx], "start",
            Decision(Filter(region, auto_start_tag, 1)[idx], auto_start_tag))
    /\ UNCHANGED <<field, max, shape, parsed, s, t, result,
                   fleet, clock, now, region>>

StartLoopEnd ==
    /\ pc = "start_loop"
    /\ idx > Len(Filter(region, auto_start_tag, 1))
    /\ pc' = "stop_loop"
    /\ idx' = 1
    /\ UNCHANGED <<field, max, shape, parsed, s, t, result,
                   fleet, clock, now, region, calls, evaluated>>

StopStep ==
    /\ pc = "stop_loop"
    /\ idx <= Len(Filter(region, auto_stop_tag, 1))
    /\ Body(Filter(region, auto_stop_tag, 1)[idx], "stop",
            Decision(Filter(region, auto_stop_tag, 1)[idx], auto_stop_tag))
    /\ UNCHANGED <<field, max, shape, parsed, s, t, result,
                   fleet, clock, now, region>>

\* The stop loop of a region is over: on to the next region, or return.
StopLoopEnd ==
    /\ pc = "stop_loop"
    /\ idx > Len(Filter(region, auto_stop_tag, 1))
    /\ IF region < Len(Regions)
       THEN region' = region + 1 /\ idx' = 1 /\ pc' = "start_loop"
       ELSE pc' = "returned" /\ UNCHANGED <<region, idx>>
    /\ UNCHANGED <<field, max, shape, parsed, s, t, result,
                   fleet, clock, now, calls, evaluated>>

\* A minute passes on the wall clock.
Tick ==
    /\ clock < Len(ClockTimes)
    /\ clock' = clock + 1
    /\ UNCHANGED <<field, max, shape, parsed, s, t, result,
                   fleet, now, pc, region, idx, calls, evaluated>>

NextHandler ==
    \/ Invoke
    \/ StartStep
    \/ StartLoopEnd
    \/ StopStep
    \/ StopLoopEnd
    \/ Tick

SpecHandler == InitHandler /\ [][NextHandler]_vars

(***************************************************************************)
(* The (instance, action) pairs of a fleet that carry the action's tag.    *)
(***************************************************************************)
KeyOf(what) == IF what = "start" THEN auto_start_tag ELSE auto_stop_tag

Tagged == {p \in (DOMAIN fleet) \X {"start", "stop"} : HasTag(p[1], KeyOf(p[2]))}

Parses(p)  == _parse_schedule(TagValue(p[1], KeyOf(p[2]))).ok

\* Whether the schedule of a tagged pair matches the time.
Fires(p, time) == Matches(time, _parse_schedule(TagValue(p[1], KeyOf(p[2])))).val

Ended == pc \in {"returned", "raised"}

(***************************************************************************)
(* C9: a schedule error on one instance does not end the scan: when        *)
(* lambda_handler has ended, every tagged instance whose schedule parses   *)
(* has been evaluated, and started or stopped if its schedule matched.     *)
(***************************************************************************)
C9_ErrorSkipsOnlyThatInstance ==
    Ended => \A p \in Tagged :
                Parses(p) => /\ p \in evaluated
                             /\ Fires(p, now) => calls[p[1]][p[2]] >= 1

(***************************************************************************)
(* C10: in a run in which every schedule parses, every decision uses the   *)
(* one timestamp taken when the run began, and each tagged instance gets   *)
(* exactly one start() (stop()) call if its start (stop) schedule matches  *)
(* that timestamp and none otherwise; an untagged action is never called.  *)
(***************************************************************************)
C10_CallsMatchDecisions ==
    \A i \in DOMAIN fleet : \A what \in {"start", "stop"} :
        calls[i][what] = IF /\ <<i, what>> \in Tagged
                            /\ Fires(<<i, what>>, now)
                         THEN 1 ELSE 0

C10_OneCallPerTrueDecision ==
    /\ [](((pc = "returned") /\ (\A p \in Tagged : Parses(p)))
            => (evaluated = Tagged /\ C10_CallsMatchDecisions))
    /\ [][IF pc = "idle" /\ pc' # "idle"
          THEN now' = ClockTimes[clock]
          ELSE now' = now]_vars

\* A run that returned after the clock moved on: one instance was started
\* (its schedule matched `now`) and one was not (its schedule matches the
\* later minute only).
C10_Witness ==
    /\ pc = "returned"
    /\ \A p \in Tagged : Parses(p)
    /\ now # ClockTimes[clock]
    /\ \E p \in Tagged : p[2] = "start" /\ calls[p[1]].start = 1
    /\ \E p \in Tagged : /\ p[2] = "start" /\ calls[p[1]].start = 0
                          /\ Fires(p, ClockTimes[clock])
    /\ \E p \in Tagged : p[2] = "stop" /\ calls[p[1]].stop = 1

=============================================================================
